---- MODULE Spec2Model ----
(***************************************************************************)
(* The edge relay node of minhtran241/multiple-edges-arch.                 *)
(*                                                                         *)
(* The repository wires the relay in two places:                           *)
(*   "main"    : EdgeNode.py, the handlers under `if __name__ ==           *)
(*               "__main__"`: recv processes the batch inside the handler  *)
(*               by calling EdgeNode.process_iot_data;                     *)
(*   "trigger" : trigger.py start_edge: recv puts the batch on             *)
(*               edge_node.queue; the queue's consumer lives in            *)
(*               network/EdgeNode.py, which is not among the sources, and  *)
(*               is modelled from the specification (section 4.4).         *)
(* SpecMain is the first program, SpecTrigger the second; connect and      *)
(* disconnect are the same code in both.  SpecShutdown is the second       *)
(* program from run() to the return of stop(), SpecShutdownFair the same   *)
(* with the progress of the consumers assumed; run(), stop() and the       *)
(* queue's close are network/EdgeNode.py's as well and follow section 4.5. *)
(* SpecPartition is the partition functions of helpers/common.py.          *)
(*                                                                         *)
(* Scheduling.  Every inbound event runs its handler as one logical thread *)
(* of execution.  A handler can be suspended only inside the calls it      *)
(* makes to its collaborators (predict_images, sio_client.emit): the steps *)
(* of process_iot_data are cut at those calls and nowhere else, so each    *)
(* `+=` on the ledger is one step.  Handlers that make no such call        *)
(* (connect, disconnect, the acc_transtime branch, the queue put) are one  *)
(* step each.                                                              *)
(*                                                                         *)
(* Times are integer ticks; every measured duration is one tick, the       *)
(* values a peer reports are -1 and 2.  Exceptions are outcomes: a recv or *)
(* disconnect handler that raises records the exception's type in          *)
(* `outcome`.                                                              *)
(***************************************************************************)
EXTENDS Integers, Sequences, FiniteSets, TLC

\* ---------------------------------------------------------------- bounds
MaxMsgs == 2        \* inbound messages delivered in one run
NumWorkers == 2     \* consumers of the queue (trigger.py wiring)
MaxItems == 4       \* entries of a directory, lines of a file
MaxParts == 3       \* num_parts of a partition call

\* ---------------------------------------------------------------- values
Sids == {"s1", "s2"}
None == "None"                 \* Python's None
NoSession == "<no session>"    \* get_session has nothing stored for the sid
HeaderKey == "HTTP_DEVICE_ID"
HeaderValues == {"", "d1"}
\* environ, restricted to the one key the code reads: the key is absent or
\* carries a (possibly empty) string.
Environs == {[k \in {} |-> ""]} \cup {[k \in {HeaderKey} |-> v] : v \in HeaderValues}
Durations == {1}               \* what time.time() - start_time measures, in ticks
AccValues == {-1, 2}           \* acc_transtime values a peer may send
Workers == 1..NumWorkers

\* A payload field: missing from the dict, present with None, or a value.
Absent(v0) == [st |-> "absent", v |-> v0]
Null(v0) == [st |-> "null", v |-> v0]
Val(x) == [st |-> "val", v |-> x]
\* `"k" in data and data["k"] is not None`
PresentNotNone(f) == f.st # "absent" /\ f.st # "null"

\* The item references of the batch carried by message i.
Batch(i) == <<2 * i - 1, 2 * i>>
\* The payload dict of message i; id is the message's identity, not a field
\* on the wire.
Payload(i, d, a) == [id |-> i, data |-> d, acc |-> a]
\* The shapes a peer may send: a data batch, a transmission-time report, both
\* at once, and neither (the keys missing, or present with None).
Payloads(i) ==
    {Payload(i, Val(Batch(i)), Absent(0)), Payload(i, Val(Batch(i)), Val(2)),
     Payload(i, Absent(<<>>), Absent(0)), Payload(i, Null(<<>>), Null(0))}
    \cup {Payload(i, Absent(<<>>), Val(a)) : a \in AccValues}

VARIABLES
    sessions,   \* sio_server's per-connection session: sid -> device_id
    transtime,  \* EdgeNode.transtime
    proctime,   \* EdgeNode.proctime
    queue,      \* edge_node.queue (trigger wiring)
    outbox,     \* what sio_client.emit has sent upstream, in order
    inflight,   \* main wiring: recv handlers inside process_iot_data
    worker,     \* trigger wiring: the queue's consumers
    nmsgs,      \* inbound messages delivered so far
    outcome,    \* how the latest recv or disconnect handler ended, or that
                \* the recv handler is running
    pushed,     \* history: entries put on the queue, in order
    popped,     \* history: entries taken from the queue, in order
    sums,       \* history: deltas added to each ledger field
    failed,     \* history: batches whose processing step raised
    escaped,    \* history: batches whose failure left the recv handler
    done,       \* history: batches whose processing path ran to its end
    takenBy,    \* history: the consumer that took each batch off the queue
    listener,   \* the inbound listener: "none", "open" or "closed"
    upstream,   \* sio_client's session to the cloud: "none", "open" or "closed"
    runEnd,     \* how run() ended for its caller, "none" while it has not
    closed,     \* trigger wiring: the queue has been closed
    stopper,    \* trigger wiring: where each call of stop() stands
    job,        \* helpers/common.py: the partition call to make
    parts       \* helpers/common.py: what the call returned

vars == <<sessions, transtime, proctime, queue, outbox, inflight, worker,
          nmsgs, outcome, pushed, popped, sums, failed, escaped, done,
          takenBy, listener, upstream, runEnd, closed, stopper, job, parts>>

ledger == <<transtime, proctime>>
hist == <<outcome, pushed, popped, sums, failed, escaped, done, takenBy>>
life == <<listener, upstream, runEnd, closed, stopper>>
part == <<job, parts>>

\* ------------------------------------------------------------- helpers
\* dict.get(key, default)
DictGet(d, key, default) == IF key \in DOMAIN d THEN d[key] ELSE default

get_device_id(environ) == DictGet(environ, HeaderKey, None)

\* Python's `a or b`: b when a is falsy (None or the empty string).
Falsy(x) == x = None \/ x = ""
PyOr(a, b) == IF Falsy(a) THEN b ELSE a

\* The same without the fallback to sid.
DeviceIdNoFallback(environ, sid) == get_device_id(environ)
\* `device_id = get_device_id(environ) or sid`
DeviceIdOf(environ, sid) == PyOr(get_device_id(environ), sid)

\* `=` written for `+=`.
AddTimeAssign(total, delta) == delta
\* `self.transtime += delta`, `self.proctime += delta`
AddTime(total, delta) == total + delta

\* The external processing step's output: one result per item, same order.
predict_images(items) == [k \in DOMAIN items |-> [label |-> items[k]]]

\* The two upstream messages of process_iot_data.  `by` is the batch that
\* sent the message; it is not on the wire.
DataEmit(b, results) == [by |-> b, msg |-> [data |-> results]]
StatsEmit(b, t, p) == [by |-> b, msg |-> [transtime |-> t, proctime |-> p, data |-> None]]
IsStats(e) == "transtime" \in DOMAIN e.msg
IsData(e) == ~IsStats(e)

\* The locals of one call of process_iot_data.  lowT and lowP are history:
\* the ledger when the batch was taken, plus the batch's own durations once
\* they have been added.
Taken(id, dev, items, t, p) ==
    [pc |-> "predict", id |-> id, dev |-> dev, items |-> items, lowT |-> t, lowP |-> p]

\* A consumer of the queue: not started yet, waiting in pop, at work on an
\* entry, or out of its loop.
New == [pc |-> "new", id |-> 0, dev |-> "", items |-> <<>>]
Stopped == [pc |-> "stopped", id |-> 0, dev |-> "", items |-> <<>>]
Idle == [pc |-> "idle", id |-> 0, dev |-> "", items |-> <<>>]
Popped(entry) ==
    [pc |-> "predict", id |-> entry[2].id, dev |-> entry[1], items |-> entry[2].data.v]

\* The calls of stop(): the one start_edge makes, and one more.
StopCalls == {"first", "second"}

\* No partition call.
NoJob == [fn |-> "none", listing |-> <<>>, num_parts |-> 0]

\* run() is inside its serving call: inbound events are dispatched.
Serving == listener = "open" /\ runEnd = "none"

NodeInit ==
    /\ sessions = [s \in Sids |-> NoSession]
    /\ transtime = 0
    /\ proctime = 0
    /\ queue = <<>>
    /\ outbox = <<>>
    /\ inflight = <<>>
    /\ worker = [w \in Workers |-> New]
    /\ nmsgs = 0
    /\ outcome = "none"
    /\ pushed = <<>>
    /\ popped = <<>>
    /\ sums = [t |-> 0, p |-> 0]
    /\ failed = {}
    /\ escaped = {}
    /\ done = {}
    /\ takenBy = <<>>
    /\ listener = "none"
    /\ upstream = "none"
    /\ runEnd = "none"
    /\ closed = FALSE
    /\ stopper = [c \in StopCalls |-> "none"]

Init ==
    /\ NodeInit
    /\ job = NoJob
    /\ parts = <<>>

\* --------------------------------------------------------------- connect
\* Both wirings: device_id = get_device_id(environ) or sid; save_session.
Connect(sid, environ) ==
    /\ Serving
    /\ sessions' = [sessions EXCEPT ![sid] = DeviceIdOf(environ, sid)]
    /\ UNCHANGED <<ledger, queue, outbox, inflight, worker, nmsgs, hist, life, part>>

\* ------------------------------------------------------------ disconnect
\* Both wirings: the handler reads session["device_id"] to log it; get_session
\* raises KeyError when nothing is stored.  The transport drops the
\* connection's session once the handler has run.
DisconnectOutcome(session) ==
    IF session = NoSession THEN "KeyError" ELSE "returned"

\* The same with the session kept by the transport after the handler.
DisconnectKeepsSession(sid) ==
    /\ Serving
    /\ outcome' = DisconnectOutcome(sessions[sid])
    /\ UNCHANGED <<sessions, ledger, queue, outbox, inflight, worker, nmsgs,
                   pushed, popped, sums, failed, escaped, done, takenBy, life, part>>

Disconnect(sid) ==
    /\ Serving
    /\ sessions' = [sessions EXCEPT ![sid] = NoSession]
    /\ outcome' = DisconnectOutcome(sessions[sid])
    /\ UNCHANGED <<ledger, queue, outbox, inflight, worker, nmsgs,
                   pushed, popped, sums, failed, escaped, done, takenBy, life, part>>

\* ------------------------------------------------- recv, EdgeNode.py wiring
\* How recv of EdgeNode.py ends for a payload, before any processing:
\*   get_session(sid) raises KeyError when the sid has no session;
\*   the acc_transtime branch returns;
\*   data["data"] raises KeyError when the key is missing;
\*   len(None), in the first log line of process_iot_data, raises TypeError;
\*   otherwise the handler is inside process_iot_data ("running").
RecvMainOutcome(session, payload) ==
    IF session = NoSession THEN "KeyError"
    ELSE IF PresentNotNone(payload.acc) THEN "returned"
    ELSE IF payload.data.st = "absent" THEN "KeyError"
    ELSE IF payload.data.st = "null" THEN "TypeError"
    ELSE "running"

RecvMain(sid, payload) ==
    /\ Serving
    /\ nmsgs < MaxMsgs
    /\ payload \in Payloads(nmsgs + 1)
    /\ nmsgs' = nmsgs + 1
    /\ LET out == RecvMainOutcome(sessions[sid], payload)
           acc == out = "returned"
       IN /\ outcome' = out
          /\ transtime' = IF acc THEN AddTime(transtime, payload.acc.v) ELSE transtime
          /\ sums' = IF acc THEN [sums EXCEPT !.t = @ + payload.acc.v] ELSE sums
          /\ inflight' = IF out = "running"
                         THEN [b \in DOMAIN inflight \cup {payload.id} |->
                                 IF b = payload.id
                                 THEN Taken(payload.id, sessions[sid], payload.data.v,
                                            transtime, proctime)
                                 ELSE inflight[b]]
                         ELSE inflight
    /\ UNCHANGED <<sessions, proctime, queue, outbox, worker,
                   pushed, popped, failed, escaped, done,
                   takenBy, life, part>>

\* ------------------------------------------------- process_iot_data
Without(f, b) == [x \in DOMAIN f \ {b} |-> f[x]]

\* predict_images returns after d ticks: proctime += d, then the data emit
\* is handed to sio_client.
PredictReturn(b, d) ==
    /\ b \in DOMAIN inflight
    /\ inflight[b].pc = "predict"
    /\ proctime' = AddTime(proctime, d)
    /\ sums' = [sums EXCEPT !.p = @ + d]
    /\ outbox' = Append(outbox, DataEmit(b, predict_images(inflight[b].items)))
    /\ inflight' = [inflight EXCEPT ![b].pc = "emit", ![b].lowP = @ + d]
    /\ UNCHANGED <<sessions, transtime, queue, worker, nmsgs, outcome,
                   pushed, popped, failed, escaped, done,
                   takenBy, life, part>>

\* The same with the time spent in the failed call added to proctime, as a
\* `finally` around the call would do.
PredictRaiseTimed(b) ==
    /\ b \in DOMAIN inflight
    /\ inflight[b].pc = "predict"
    /\ proctime' = AddTime(proctime, 1)
    /\ sums' = [sums EXCEPT !.p = @ + 1]
    /\ inflight' = Without(inflight, b)
    /\ failed' = failed \cup {b}
    /\ escaped' = escaped \cup {b}
    /\ UNCHANGED <<sessions, transtime, queue, outbox, worker, nmsgs, outcome,
                   pushed, popped, done,
                   takenBy, life, part>>

\* predict_images raises: neither process_iot_data nor recv has a handler for
\* it, so the exception leaves both.
PredictRaise(b) ==
    /\ b \in DOMAIN inflight
    /\ inflight[b].pc = "predict"
    /\ inflight' = Without(inflight, b)
    /\ failed' = failed \cup {b}
    /\ escaped' = escaped \cup {b}
    /\ UNCHANGED <<sessions, ledger, queue, outbox, worker, nmsgs, outcome,
                   pushed, popped, sums, done,
                   takenBy, life, part>>

\* The same with the processing total read before the data emit, when the
\* batch's own processing time was added, instead of when the stats message
\* is built.
EmitReturnEarlyRead(b, d) ==
    /\ b \in DOMAIN inflight
    /\ inflight[b].pc = "emit"
    /\ transtime' = AddTime(transtime, d)
    /\ sums' = [sums EXCEPT !.t = @ + d]
    /\ outbox' = Append(outbox, StatsEmit(b, transtime', inflight[b].lowP))
    /\ inflight' = [inflight EXCEPT ![b].pc = "stats", ![b].lowT = @ + d]
    /\ UNCHANGED <<sessions, proctime, queue, worker, nmsgs, outcome,
                   pushed, popped, failed, escaped, done,
                   takenBy, life, part>>

\* The data emit returns after d ticks: transtime += d, then the stats
\* message is built from the two fields and handed to sio_client.
EmitReturn(b, d) ==
    /\ b \in DOMAIN inflight
    /\ inflight[b].pc = "emit"
    /\ transtime' = AddTime(transtime, d)
    /\ sums' = [sums EXCEPT !.t = @ + d]
    /\ outbox' = Append(outbox, StatsEmit(b, transtime', proctime))
    /\ inflight' = [inflight EXCEPT ![b].pc = "stats", ![b].lowT = @ + d]
    /\ UNCHANGED <<sessions, proctime, queue, worker, nmsgs, outcome,
                   pushed, popped, failed, escaped, done,
                   takenBy, life, part>>

\* The stats emit returns and with it process_iot_data and recv.
StatsReturn(b) ==
    /\ b \in DOMAIN inflight
    /\ inflight[b].pc = "stats"
    /\ inflight' = Without(inflight, b)
    /\ done' = done \cup {b}
    /\ UNCHANGED <<sessions, ledger, queue, outbox, worker, nmsgs, outcome,
                   pushed, popped, sums, failed, escaped,
                   takenBy, life, part>>

\* ------------------------------------------------- recv, trigger.py wiring
HardCodedDeviceId == "iot-1"

\* A put at the head of the queue instead of its tail.
QueuePutFront(q, entry) == <<entry>> \o q
\* edge_node.queue.put(entry)
QueuePut(q, entry) == Append(q, entry)

\* Which branch of start_edge.recv a payload takes.
RecvTriggerBranch(payload) ==
    IF PresentNotNone(payload.data) THEN "put"
    ELSE IF PresentNotNone(payload.acc) THEN "acc"
    ELSE "none"

RecvTrigger(sid, payload) ==
    /\ Serving
    /\ nmsgs < MaxMsgs
    /\ payload \in Payloads(nmsgs + 1)
    /\ nmsgs' = nmsgs + 1
    /\ outcome' = "returned"
    /\ LET br == RecvTriggerBranch(payload)
           entry == <<HardCodedDeviceId, payload>>
       IN /\ queue' = IF br = "put" THEN QueuePut(queue, entry) ELSE queue
          /\ pushed' = IF br = "put" THEN Append(pushed, [sid |-> sid, entry |-> entry])
                       ELSE pushed
          /\ transtime' = IF br = "acc" THEN AddTime(transtime, payload.acc.v) ELSE transtime
          /\ sums' = IF br = "acc" THEN [sums EXCEPT !.t = @ + payload.acc.v] ELSE sums
    /\ UNCHANGED <<sessions, proctime, outbox, inflight, worker,
                   popped, failed, escaped, done,
                   takenBy, life, part>>

\* ------------------------------------------------- the queue's consumer
\* Section 4.4 of the specification: pop, process, add the processing time,
\* emit, add the emit time, emit the snapshot; a failed batch is logged and
\* dropped and the loop goes on.
\* The consumers run the same loop, so which of the idle ones a put wakes
\* makes no difference: the lowest-numbered idle consumer takes the entry.
WorkerPop(w) ==
    /\ worker[w].pc = "idle"
    /\ \A v \in Workers : worker[v].pc = "idle" => w <= v
    /\ queue # <<>>
    /\ LET entry == Head(queue)
       IN /\ popped' = Append(popped, entry)
          /\ worker' = [worker EXCEPT ![w] = Popped(entry)]
          /\ takenBy' = [b \in DOMAIN takenBy \cup {entry[2].id} |->
                           IF b = entry[2].id THEN w ELSE takenBy[b]]
    /\ queue' = Tail(queue)
    /\ UNCHANGED <<sessions, ledger, outbox, inflight, nmsgs, outcome,
                   pushed, sums, failed, escaped, done, life, part>>

WorkerProcessed(w, d) ==
    /\ worker[w].pc = "predict"
    /\ proctime' = AddTime(proctime, d)
    /\ sums' = [sums EXCEPT !.p = @ + d]
    /\ outbox' = Append(outbox, DataEmit(worker[w].id, predict_images(worker[w].items)))
    /\ worker' = [worker EXCEPT ![w].pc = "emit"]
    /\ UNCHANGED <<sessions, transtime, queue, inflight, nmsgs, outcome,
                   pushed, popped, failed, escaped, done,
                   takenBy, life, part>>

WorkerProcessFailed(w) ==
    /\ worker[w].pc = "predict"
    /\ failed' = failed \cup {worker[w].id}
    /\ worker' = [worker EXCEPT ![w] = Idle]
    /\ UNCHANGED <<sessions, ledger, queue, outbox, inflight, nmsgs, outcome,
                   pushed, popped, sums, escaped, done,
                   takenBy, life, part>>

WorkerEmitted(w, d) ==
    /\ worker[w].pc = "emit"
    /\ transtime' = AddTime(transtime, d)
    /\ sums' = [sums EXCEPT !.t = @ + d]
    /\ outbox' = Append(outbox, StatsEmit(worker[w].id, transtime', proctime))
    /\ worker' = [worker EXCEPT ![w].pc = "stats"]
    /\ UNCHANGED <<sessions, proctime, queue, inflight, nmsgs, outcome,
                   pushed, popped, failed, escaped, done,
                   takenBy, life, part>>

WorkerStatsSent(w) ==
    /\ worker[w].pc = "stats"
    /\ done' = done \cup {worker[w].id}
    /\ worker' = [worker EXCEPT ![w] = Idle]
    /\ UNCHANGED <<sessions, ledger, queue, outbox, inflight, nmsgs, outcome,
                   pushed, popped, sums, failed, escaped,
                   takenBy, life, part>>

\* ------------------------------------------------- run, EdgeNode.py
\* EdgeNode.run: sio_client.connect succeeds and eventlet.wsgi.server starts
\* to serve the port.
RunMainServe ==
    /\ listener = "none" /\ upstream = "none" /\ runEnd = "none"
    /\ upstream' = "open"
    /\ listener' = "open"
    /\ UNCHANGED <<sessions, ledger, queue, outbox, inflight, worker, nmsgs, hist,
                   runEnd, closed, stopper, part>>

\* EdgeNode.run: sio_client.connect raises.  The `except Exception` of run
\* logs the error and run returns None; the try block of __main__ ends
\* without an exception.
RunMainConnectFails ==
    /\ listener = "none" /\ upstream = "none" /\ runEnd = "none"
    /\ runEnd' = "returned"
    /\ UNCHANGED <<sessions, ledger, queue, outbox, inflight, worker, nmsgs, hist,
                   listener, upstream, closed, stopper, part>>

\* ------------------------------------------------- run and stop, trigger.py
\* run() and stop() of network/EdgeNode.py, from section 4.5 of the
\* specification.  run opens the outbound session, starts the consumers and
\* serves.
RunTriggerServe ==
    /\ listener = "none" /\ upstream = "none" /\ runEnd = "none"
    /\ upstream' = "open"
    /\ worker' = [w \in Workers |-> Idle]
    /\ listener' = "open"
    /\ UNCHANGED <<sessions, ledger, queue, outbox, inflight, nmsgs, hist,
                   runEnd, closed, stopper, part>>

\* The same with a close that flips the queue's flag instead of setting it.
StopBeginsToggle(c) ==
    /\ closed' = ~closed
    /\ stopper' = [stopper EXCEPT ![c] = "waiting"]

\* The same without the close of the queue.
StopBeginsNoClose(c) ==
    /\ closed' = closed
    /\ stopper' = [stopper EXCEPT ![c] = "waiting"]

\* stop(), up to its wait for the consumers: the queue is closed.
StopBegins(c) ==
    /\ closed' = TRUE
    /\ stopper' = [stopper EXCEPT ![c] = "waiting"]

\* run() raises for start_edge: the outbound session cannot be opened
\* (UpstreamConnectError, nothing was started), or the serving call ends
\* with an exception.  The except clause of start_edge logs and calls
\* edge_node.stop().
RunTriggerRaises(how) ==
    /\ runEnd = "none"
    /\ IF how = "UpstreamConnectError"
       THEN listener = "none" /\ upstream = "none"
       ELSE listener = "open"
    /\ runEnd' = how
    /\ StopBegins("first")
    /\ UNCHANGED <<sessions, ledger, queue, outbox, inflight, worker, nmsgs, hist,
                   listener, upstream, part>>

\* One more call of stop(), made after the first.
StopAgain(c) ==
    /\ stopper[c] = "none"
    /\ stopper["first"] # "none"
    /\ StopBegins(c)
    /\ UNCHANGED <<sessions, ledger, queue, outbox, inflight, worker, nmsgs, hist,
                   listener, upstream, runEnd, part>>

\* The same for a consumer that leaves as soon as the queue is closed,
\* whatever is still on it.
WorkerStopOnClose(w) ==
    /\ worker[w].pc = "idle"
    /\ closed
    /\ worker' = [worker EXCEPT ![w] = Stopped]
    /\ UNCHANGED <<sessions, ledger, queue, outbox, inflight, nmsgs, hist, life, part>>

\* A consumer in pop finds the queue closed and empty and leaves its loop.
WorkerStop(w) ==
    /\ worker[w].pc = "idle"
    /\ closed
    /\ queue = <<>>
    /\ worker' = [worker EXCEPT ![w] = Stopped]
    /\ UNCHANGED <<sessions, ledger, queue, outbox, inflight, nmsgs, hist, life, part>>

\* The wait of stop() ends when no started consumer is left in its loop; stop
\* closes the outbound session and the inbound listener and returns.
StopReturns(c) ==
    /\ stopper[c] = "waiting"
    /\ \A w \in Workers : worker[w].pc \in {"new", "stopped"}
    /\ upstream' = "closed"
    /\ listener' = "closed"
    /\ stopper' = [stopper EXCEPT ![c] = "returned"]
    /\ UNCHANGED <<sessions, ledger, queue, outbox, inflight, worker, nmsgs, hist,
                   runEnd, closed, part>>

\* ------------------------------------------------------------------ Next
Ids == 1..MaxMsgs
AllPayloads == UNION {Payloads(i) : i \in Ids}

RunRaises == {"UpstreamConnectError", "raised"}

NextMain ==
    \/ RunMainServe
    \/ RunMainConnectFails
    \/ \E sid \in Sids, environ \in Environs : Connect(sid, environ)
    \/ \E sid \in Sids : Disconnect(sid)
    \/ \E sid \in Sids, payload \in AllPayloads : RecvMain(sid, payload)
    \/ \E b \in Ids, d \in Durations : PredictReturn(b, d)
    \/ \E b \in Ids : PredictRaise(b)
    \/ \E b \in Ids, d \in Durations : EmitReturn(b, d)
    \/ \E b \in Ids : StatsReturn(b)

NextTrigger ==
    \/ RunTriggerServe
    \/ \E sid \in Sids, environ \in Environs : Connect(sid, environ)
    \/ \E sid \in Sids : Disconnect(sid)
    \/ \E sid \in Sids, payload \in AllPayloads : RecvTrigger(sid, payload)
    \/ \E w \in Workers : WorkerPop(w)
    \/ \E w \in Workers, d \in Durations : WorkerProcessed(w, d)
    \/ \E w \in Workers : WorkerProcessFailed(w)
    \/ \E w \in Workers, d \in Durations : WorkerEmitted(w, d)
    \/ \E w \in Workers : WorkerStatsSent(w)

SpecMain == Init /\ [][NextMain]_vars
SpecTrigger == Init /\ [][NextTrigger]_vars

\* The trigger.py wiring from start to shutdown.  Sessions play no part in
\* it: recv of trigger.py reads none, and neither do the consumers nor stop.
NextShutdown ==
    \/ RunTriggerServe
    \/ \E how \in RunRaises : RunTriggerRaises(how)
    \/ \E sid \in Sids, payload \in AllPayloads : RecvTrigger(sid, payload)
    \/ \E w \in Workers : WorkerPop(w)
    \/ \E w \in Workers, d \in Durations : WorkerProcessed(w, d)
    \/ \E w \in Workers : WorkerProcessFailed(w)
    \/ \E w \in Workers, d \in Durations : WorkerEmitted(w, d)
    \/ \E w \in Workers : WorkerStatsSent(w)
    \/ \E w \in Workers : WorkerStop(w)
    \/ \E c \in StopCalls : StopAgain(c)
    \/ \E c \in StopCalls : StopReturns(c)

SpecShutdown == Init /\ [][NextShutdown]_vars

\* What the consumers and a waiting stop() do on their own: a consumer that
\* can pop or leave does so, processing and the emits return, and stop()
\* goes on once its wait is over.  Nothing is assumed of the peers, of the
\* end of run() or of further calls of stop().
ConsumerStep(w) ==
    \/ WorkerPop(w)
    \/ \E d \in Durations : WorkerProcessed(w, d)
    \/ WorkerProcessFailed(w)
    \/ \E d \in Durations : WorkerEmitted(w, d)
    \/ WorkerStatsSent(w)
    \/ WorkerStop(w)

\* The same program with one peer that sends data batches only: what the
\* consumers and stop() do next depends on no other field of a message.
NextDrain ==
    \/ RunTriggerServe
    \/ \E how \in RunRaises : RunTriggerRaises(how)
    \/ \E i \in Ids : RecvTrigger("s1", Payload(i, Val(Batch(i)), Absent(0)))
    \/ \E w \in Workers : ConsumerStep(w)
    \/ \E c \in StopCalls : StopAgain(c)
    \/ \E c \in StopCalls : StopReturns(c)

SpecShutdownFair ==
    /\ Init /\ [][NextDrain]_vars
    /\ \A w \in Workers : WF_vars(ConsumerStep(w))
    /\ \A c \in StopCalls : WF_vars(StopReturns(c))

\* ======================================================================
\* helpers/common.py: the partition functions
\* ======================================================================
\* What os.listdir returns, or the lines readlines returns: entry k is named
\* k and ends in one of two ways.  As file names the entries of a listing are
\* distinct; as lines, two entries with the same ending are equal lines.
Endings == {".jpg", ".txt"}
Listings ==
    UNION {[1..n -> Endings] : n \in 0..MaxItems}
Entry(listing, k) == [name |-> k, ext |-> listing[k]]
Entries(listing) == [k \in DOMAIN listing |-> Entry(listing, k)]
Lines(listing) == [k \in DOMAIN listing |-> listing[k]]

Dir == "dir"
\* os.path.join(dir, f)
Join(dir, f) == [dir |-> dir, name |-> f.name, ext |-> f.ext]
\* [f for f in os.listdir(dir) if f.endswith(ext)]
WithEnding(files, ext) == SelectSeq(files, LAMBDA f : f.ext = ext)
Joined(dir, files) == [k \in DOMAIN files |-> Join(dir, files[k])]

\* `list * times`: the list, times times in a row
Times(list, times) ==
    [k \in 1..(Len(list) * times) |-> list[((k - 1) % Len(list)) + 1]]
\* The factor in partition_texts.
TextRepeat == 300

\* An index that counts the items from one.
PartIndexFromOne(i, num_parts) == (i + 1) % num_parts
\* `i % num_parts`, i counted from zero by enumerate
PartIndex(i, num_parts) == i % num_parts

\* `data_parts = [[] for _ in range(num_parts)]`, then the loop
\* `for i, x in enumerate(items): data_parts[i % num_parts].append(x)`:
\* data_parts[p], which is slot p + 1 here, is appended the items whose index
\* the loop maps to p, in the order the loop meets them.
AppendedTo(items, p, num_parts) ==
    SelectSeq([k \in 1..Len(items) |-> k], LAMBDA k : PartIndex(k - 1, num_parts) = p)
RoundRobin(items, num_parts) ==
    [slot \in 1..num_parts |->
        LET met == AppendedTo(items, slot - 1, num_parts)
        IN [q \in DOMAIN met |-> items[met[q]]]]

\* The list each function builds before it splits it.
ImagePaths(listing) == Joined(Dir, WithEnding(Entries(listing), ".jpg"))
TextFiles(listing) == Times(WithEnding(Entries(listing), ".txt"), TextRepeat)
Reviews(listing) == Lines(listing)

partition_images(listing, num_parts) == RoundRobin(ImagePaths(listing), num_parts)
partition_texts(listing, num_parts) == RoundRobin(Joined(Dir, TextFiles(listing)), num_parts)
partition_text(listing, num_parts) == RoundRobin(Reviews(listing), num_parts)

Functions == {"partition_images", "partition_texts", "partition_text"}
Jobs == [fn : Functions, listing : Listings, num_parts : 1..MaxParts]

InitPartition ==
    /\ NodeInit
    /\ job \in Jobs
    /\ parts = <<>>

\* One call; a result has num_parts >= 1 parts, so <<>> stands for no result.
Call(fn, result) ==
    /\ job.fn = fn
    /\ parts = <<>>
    /\ parts' = result
    /\ UNCHANGED <<sessions, ledger, queue, outbox, inflight, worker, nmsgs, hist, life, job>>

CallPartitionImages == Call("partition_images", partition_images(job.listing, job.num_parts))
CallPartitionTexts == Call("partition_texts", partition_texts(job.listing, job.num_parts))
CallPartitionText == Call("partition_text", partition_text(job.listing, job.num_parts))

NextPartition ==
    \/ CallPartitionImages
    \/ CallPartitionTexts
    \/ CallPartitionText

SpecPartition == InitPartition /\ [][NextPartition]_vars

\* ======================================================================
\* Claims
\* ======================================================================
BatchesPastStats == done \cup {b \in DOMAIN inflight : inflight[b].pc = "stats"}
EmitsBy(b) == {k \in DOMAIN outbox : outbox[k].by = b}
DataEmitsBy(b) == {k \in EmitsBy(b) : IsData(outbox[k])}
StatsEmitsBy(b) == {k \in EmitsBy(b) : IsStats(outbox[k])}

\* C1: no lost updates on the ledger.  Whatever the interleaving of the
\* processing paths and the acc_transtime handlers, the transmission total is
\* the sum of the transmission deltas added so far and the processing total
\* the sum of the processing deltas added so far.
C1_NoLostUpdates == transtime = sums.t /\ proctime = sums.p

\* A batch is between its processing step and the return of its data emit,
\* and an acc_transtime report was added to the ledger since it was taken.
C1_Witness ==
    \E b \in DOMAIN inflight :
        /\ inflight[b].pc = "emit"
        /\ transtime = inflight[b].lowT + 2
        /\ proctime = 1

\* C2: neither ledger field ever decreases, and both stay >= 0, whatever
\* value an acc_transtime message carries.
C2_LedgerMonotonic ==
    [][/\ transtime' >= transtime /\ proctime' >= proctime
       /\ transtime' >= 0 /\ proctime' >= 0]_vars

\* C3: the queue is exactly-once FIFO.  Every entry put on it is, exactly
\* once, either still queued or popped, nothing else is, and two entries put
\* by the same connection are popped in the order they were put.
PushIndex(entry) == CHOOSE k \in DOMAIN pushed : pushed[k].entry = entry
C3_ExactlyOnceFifo ==
    LET all == popped \o queue
    IN /\ Len(all) = Len(pushed)
       /\ \A k \in DOMAIN pushed :
            Cardinality({j \in DOMAIN all : all[j] = pushed[k].entry}) = 1
       /\ \A i, j \in DOMAIN popped :
            (/\ i < j
             /\ pushed[PushIndex(popped[i])].sid = pushed[PushIndex(popped[j])].sid)
            => PushIndex(popped[i]) < PushIndex(popped[j])

\* Two entries put by the same connection were both popped, by two consumers
\* that are both still at work.
C3_Witness ==
    /\ Len(popped) = 2
    /\ pushed[1].sid = pushed[2].sid
    /\ \A w \in {1, 2} : worker[w].pc # "idle"

\* C4: a batch whose processing step fails appears in no upstream emit, and
\* the failure does not leave the processing path.
C4_FailureContained ==
    \A b \in failed : EmitsBy(b) = {} /\ b \notin escaped

\* C5: a batch whose processing succeeded has sent exactly one data message
\* with its results and, after it, exactly one stats message with data = None;
\* the stats message's totals are at least the ledger as it was when the batch
\* was taken plus the batch's processing duration and emit duration.
C5_DataThenStats ==
    \A b \in BatchesPastStats :
        /\ Cardinality(DataEmitsBy(b)) = 1
        /\ Cardinality(StatsEmitsBy(b)) = 1
        /\ \A k \in DataEmitsBy(b) :
             /\ outbox[k].msg.data = predict_images(Batch(b))
             /\ \A j \in StatsEmitsBy(b) : k < j
        /\ \A j \in StatsEmitsBy(b) :
             /\ outbox[j].msg.data = None
             /\ b \in DOMAIN inflight =>
                  /\ outbox[j].msg.transtime >= inflight[b].lowT
                  /\ outbox[j].msg.proctime >= inflight[b].lowP

\* C6: an acc_transtime report on a connection with no session changes
\* neither ledger field, enqueues nothing and emits nothing.
C6_UnknownSessionDropped ==
    [][\A sid \in Sids, payload \in AllPayloads :
         (/\ RecvTrigger(sid, payload)
          /\ sessions[sid] = NoSession
          /\ PresentNotNone(payload.acc))
         => /\ transtime' = transtime /\ proctime' = proctime
            /\ queue' = queue /\ outbox' = outbox]_vars

\* C7: a message with a non-null acc_transtime on a registered connection adds
\* exactly that value to the transmission total and does nothing else,
\* whatever else the payload carries.
C7_ReportOnlyAdds ==
    [][\A sid \in Sids, payload \in AllPayloads :
         (/\ RecvTrigger(sid, payload)
          /\ sessions[sid] # NoSession
          /\ PresentNotNone(payload.acc))
         => /\ transtime' = transtime + payload.acc.v
            /\ proctime' = proctime /\ queue' = queue
            /\ outbox' = outbox /\ worker' = worker]_vars

\* C8: a message on a registered connection with neither a non-null
\* acc_transtime nor a non-null data is discarded: the handler returns, and
\* ledger, queue, sessions and upstream are untouched and nothing is processed.
C8_MalformedDiscarded ==
    [][\A sid \in Sids, payload \in AllPayloads :
         (/\ RecvMain(sid, payload)
          /\ sessions[sid] # NoSession
          /\ ~PresentNotNone(payload.acc)
          /\ ~PresentNotNone(payload.data))
         => /\ outcome' = "returned"
            /\ UNCHANGED <<ledger, queue, sessions, outbox, inflight>>]_vars

\* C9: the entry put on the queue for a data message of connection c carries
\* the device id registered for c and the payload's data sequence.
C9_EntryCarriesDeviceId ==
    [][\A sid \in Sids, payload \in AllPayloads :
         (/\ RecvTrigger(sid, payload)
          /\ sessions[sid] # NoSession
          /\ PresentNotNone(payload.data))
         => /\ Len(queue') = Len(queue) + 1
            /\ queue'[Len(queue')][1] = sessions[sid]
            /\ queue'[Len(queue')][2].data.v = payload.data.v]_vars

\* C10: after connect(sid, environ) the registry maps sid to the device-id
\* header when the header is present and to sid when it is absent, whatever
\* was registered for sid before.
C10_ConnectAsStated ==
    [][\A sid \in Sids, environ \in Environs :
         Connect(sid, environ)
         => sessions'[sid] = IF HeaderKey \in DOMAIN environ
                             THEN environ[HeaderKey] ELSE sid]_vars

\* C10 as amended: connect maps sid to the device-id header when the header
\* is present and not empty, and to sid when it is absent or empty; a connect
\* of a sid that is already registered overwrites the mapping.
C10_ConnectMapsDevice ==
    [][\A sid \in Sids, environ \in Environs :
         Connect(sid, environ)
         => /\ sessions'[sid] = IF HeaderKey \in DOMAIN environ /\ environ[HeaderKey] # ""
                                THEN environ[HeaderKey] ELSE sid
            /\ \A other \in Sids \ {sid} : sessions'[other] = sessions[other]]_vars

\* One connection is registered under its header's device id, the other under
\* its own sid.
C10_Witness == sessions["s1"] = "d1" /\ sessions["s2"] = "s2"

C12_ConnectErrorSurfaces ==
    (runEnd # "none" /\ upstream = "none")
    => /\ runEnd = "UpstreamConnectError"
       /\ listener = "none"
       /\ \A w \in Workers : worker[w].pc = "new"
       /\ nmsgs = 0

\* The stopped state: queue closed and drained, no consumer in its loop,
\* outbound session closed, inbound listener closed.
StoppedState ==
    /\ closed /\ queue = <<>>
    /\ \A w \in Workers : worker[w].pc \in {"new", "stopped"}
    /\ upstream = "closed"
    /\ listener = "closed"

\* C13: stop() is idempotent.  A call of stop() made after the first, while
\* the first is still waiting for the consumers or after it has returned,
\* changes nothing but its own progress, returns under the same condition as
\* the first, and every call that has returned leaves the node in the same
\* stopped state.
C13_StopIdempotent ==
    /\ [](\A c \in StopCalls : stopper[c] = "returned" => StoppedState)
    /\ [](\A c \in StopCalls :
            (stopper[c] = "waiting" /\ \A w \in Workers : worker[w].pc \in {"new", "stopped"})
            => ENABLED StopReturns(c))
    /\ [][\A c \in StopCalls :
            /\ StopAgain(c)
               => UNCHANGED <<closed, queue, worker, upstream, listener, outbox, ledger>>
            /\ (StopReturns(c) /\ \E o \in StopCalls : stopper[o] = "returned")
               => /\ StoppedState /\ StoppedState'
                  /\ UNCHANGED <<closed, queue, worker, upstream, listener, outbox, ledger>>]_vars

\* The second call of stop() was made while the first was waiting for a
\* consumer that is at work on a batch.
C13_Witness ==
    /\ stopper["first"] = "waiting"
    /\ stopper["second"] = "waiting"
    /\ \E w \in Workers : worker[w].pc = "emit"

ConsumersOut == \A w \in Workers : worker[w].pc \in {"new", "stopped"}
BothEmits(b) == DataEmitsBy(b) # {} /\ StatsEmitsBy(b) # {}

\* C14: once stop() has been called, every consumer is eventually out of its
\* loop and stop() returns, provided processing and the emits return; and a
\* batch that a consumer had taken gets its data emit and its stats emit
\* before that consumer leaves and before the outbound session is closed,
\* unless its processing step failed.
C14_StopDrains ==
    /\ (stopper["first"] # "none") ~> (ConsumersOut /\ stopper["first"] = "returned")
    /\ \A b \in Ids : (b \in DOMAIN takenBy) ~> (b \in failed \/ (b \in done /\ BothEmits(b)))
    /\ [](\A b \in DOMAIN takenBy :
            (worker[takenBy[b]].pc = "stopped" \/ upstream = "closed")
            => (b \in failed \/ (b \in done /\ BothEmits(b))))

\* stop() has returned with the outbound session closed, after a consumer
\* had taken a batch and sent its two messages.
C14_Witness ==
    /\ stopper["first"] = "returned"
    /\ upstream = "closed"
    /\ \E b \in DOMAIN takenBy : b \in done /\ BothEmits(b)
    /\ \E w \in Workers : worker[w].pc = "stopped"

\* A batch is processed when its path has run to its end or its processing
\* step has failed.
Processed(b) == b \in done \/ b \in failed
SomeStopped == \E w \in Workers : worker[w].pc = "stopped"

HandlerRunning(b) == b \in DOMAIN inflight
\* Batch b is on the queue, or its processing or one of its emits is under
\* way.
Queued(b) == \E k \in DOMAIN queue : queue[k][2].id = b
InProgress(b) ==
    \/ b \in DOMAIN inflight
    \/ Queued(b)
    \/ \E w \in Workers : worker[w].id = b

\* C16: the handler of a data message does not wait for the processing or
\* the emits of its batch: whenever a batch is queued or in progress, the
\* handler that received it has returned.
C16_HandlerDoesNotWait ==
    \A b \in Ids : InProgress(b) => ~HandlerRunning(b)

\* The batches put on the queue, the place of each in the order of the puts,
\* the connection it came from, and the place of its data emit upstream.
PushedIds == {pushed[k].entry[2].id : k \in DOMAIN pushed}
PutIndex(b) == CHOOSE k \in DOMAIN pushed : pushed[k].entry[2].id = b
SenderOf(b) == pushed[PutIndex(b)].sid
DataEmitted(b) == DataEmitsBy(b) # {}
DataPos(b) == CHOOSE k \in DataEmitsBy(b) : TRUE
\* b1 was put before b2 by the same connection.
EarlierOfSameDevice(b1, b2) ==
    /\ b1 \in PushedIds /\ b2 \in PushedIds
    /\ SenderOf(b1) = SenderOf(b2)
    /\ PutIndex(b1) < PutIndex(b2)
\* The data emit of b2 is not upstream ahead of that of b1: b1 failed, or
\* its emit came first.
EmitsInOrder(b1, b2) ==
    DataEmitted(b2)
    => (b1 \in failed \/ (DataEmitted(b1) /\ DataPos(b1) < DataPos(b2)))

C18_SnapshotConsistent ==
    [][(Len(outbox') = Len(outbox) + 1 /\ IsStats(outbox'[Len(outbox')]))
       => LET m == outbox'[Len(outbox')].msg
          IN m.transtime = transtime' /\ m.proctime = proctime']_vars

\* A stats message is upstream whose processing total is not the one the
\* ledger held when its batch's own processing time was added: another
\* batch's processing time came in between.
C18_Witness ==
    \E b \in DOMAIN inflight :
        /\ inflight[b].pc = "stats"
        /\ \E k \in StatsEmitsBy(b) : outbox[k].msg.proctime # inflight[b].lowP

\* The batches whose processing step has returned, and those whose data emit
\* has returned as well.
PastProcessing == done \cup {b \in DOMAIN inflight : inflight[b].pc \in {"emit", "stats"}}
StatsEmits == {k \in DOMAIN outbox : IsStats(outbox[k])}

\* After every step: no message was sent for a failed batch, every
\* processing time in the ledger belongs to a batch whose processing step
\* returned, and there are as many stats emits as batches whose processing
\* and data emit both completed.
FailedLeaveNoTrace ==
    /\ \A b \in failed : EmitsBy(b) = {}
    /\ proctime = Cardinality(PastProcessing)
    /\ Cardinality(StatsEmits) = Cardinality(BatchesPastStats)

\* C19: a batch whose processing step fails changes nothing observable.  The
\* failing step leaves both ledger fields and the upstream as they are, and
\* whatever step is taken, failed batches have left no trace.
C19_FailedBatchInvisible ==
    [][/\ FailedLeaveNoTrace'
       /\ \A b \in Ids : PredictRaise(b) => UNCHANGED <<transtime, proctime, outbox>>]_vars

\* One batch failed in its processing step while another went through to its
\* stats emit.
C19_Witness ==
    /\ failed # {}
    /\ Cardinality(StatsEmits) = 1
    /\ proctime = 1

\* The input items of a call as the claim counts them: the image files of
\* the directory, the text files of the directory, the lines of the file.
InputItems(j) ==
    IF j.fn = "partition_images" THEN ImagePaths(j.listing)
    ELSE IF j.fn = "partition_texts"
         THEN Joined(Dir, WithEnding(Entries(j.listing), ".txt"))
         ELSE Reviews(j.listing)
\* The list a call splits: for partition_texts, the text files 300 times over.
SplitItems(j) ==
    IF j.fn = "partition_texts" THEN Joined(Dir, TextFiles(j.listing)) ELSE InputItems(j)

RECURSIVE SumLen(_, _)
SumLen(ps, k) == IF k = 0 THEN 0 ELSE Len(ps[k]) + SumLen(ps, k - 1)

\* ps is the round-robin split of items into n parts: n parts; item number
\* i, counted from zero, is in part i mod n, behind the items before it that
\* went to the same part; the parts hold nothing else; sizes differ by at
\* most one.
IsRoundRobin(ps, items, n) ==
    /\ Len(ps) = n
    /\ \A k \in DOMAIN items :
          LET p == ((k - 1) % n) + 1
              q == ((k - 1) \div n) + 1
          IN q \in DOMAIN ps[p] /\ ps[p][q] = items[k]
    /\ SumLen(ps, Len(ps)) = Len(items)
    /\ \A p, r \in DOMAIN ps : Len(ps[p]) - Len(ps[r]) <= 1

Occurrences(ps, x) ==
    Cardinality({pq \in UNION {{<<p, q>> : q \in DOMAIN ps[p]} : p \in DOMAIN ps} :
                   ps[pq[1]][pq[2]] = x})

====
